---- MODULE Spec2Model ----
(***************************************************************************)
(* The RunwayML proxy (functions/ai.js and its image-to-image variant) and *)
(* the browser client (src/App.jsx): job submission, the job metadata     *)
(* store, status polling and the client's polling timer.                   *)
(***************************************************************************)
EXTENDS Integers, Sequences, FiniteSets, TLC

\* ------------------------------------------------------------------ bounds
MaxTasks == 2          \* job ids the upstream API hands out
ProgressDen == 1       \* upstream reports progress k/ProgressDen, k in 0..ProgressDen
MaxSubmits == 2        \* submissions the user makes in one page session
MaxPolls == 2          \* status requests the page issues in one session
MaxPromptLen == 1      \* characters typed into the prompt field
MaxInputs == 3         \* file selections, removals and prompt edits in one session

TaskIds == 1..MaxTasks
NoTask == 0            \* a missing taskId / data.id
NoUrl == 0             \* a missing or empty output[0] / URL field
NoNum == -1            \* a missing numeric field
Absent == "absent"     \* a missing string field

\* ------------------------------------------------------------------ state
VARIABLES
  deployed,        \* which handler file serves POST /ai: "ai" or "part_000"
  env,             \* env.RUNWAYML_API_KEY, env.TASK_INFO_KV (bound or not)
  storeMayFail,    \* environment: calls on the bound store may reject
  tasks,           \* the upstream API's tasks: id -> [status, output]; ACTIVE = not finished
  kv,              \* TASK_INFO_KV: id -> "none" | "image" | "video"
  pendingDeletes,  \* deletions handed to context.waitUntil, not yet run
  last,            \* the last request handled and what it did (history)
  twice,           \* whether that request repeated the status request before it, and
                   \* what the first of the two did (history)
  submitted,       \* id -> the kind of the submission answered with that id (history)
  observed,        \* ids whose terminal state a status response has relayed (history)
  ui,              \* App's useState values
  mounted,         \* the App component is mounted
  pollIntervalRef, \* pollIntervalRef.current: a timer id, or NoTimer for null
  intervals,       \* the browser's active setInterval timers
  uploads,         \* the submissions made: k -> the fetch of generateModifiedImage
  polls,           \* the status fetches in flight
  hist,            \* per timer: requests issued, responses handled (history)
  inputs           \* file selections, removals and prompt edits so far (history)

recordVars == <<submitted, observed>>
serverVars == <<deployed, env, storeMayFail, tasks, kv, pendingDeletes, last, twice,
                submitted, observed>>
clientVars == <<ui, mounted, pollIntervalRef, intervals, uploads, polls, hist, inputs>>
vars == <<deployed, env, storeMayFail, tasks, kv, pendingDeletes, last, twice,
          submitted, observed,
          ui, mounted, pollIntervalRef, intervals, uploads, polls, hist, inputs>>

\* ------------------------------------------------------- upstream API model
NoTaskState == [status |-> "NONE", output |-> NoUrl]

\* The body of an upstream answer that carries no task.
NoTaskData == [status |-> "NONE", progress |-> 0, output |-> NoUrl]

\* The URL the upstream API produces for task t.
UrlOf(t) == t

\* The id the upstream API issues next (ids are never reused).
FreshId == IF \E t \in TaskIds : tasks[t].status = "NONE"
           THEN CHOOSE t \in TaskIds :
                  /\ tasks[t].status = "NONE"
                  /\ \A s \in TaskIds : tasks[s].status = "NONE" => t <= s
           ELSE NoTask

Terminal(s) == s \in {"SUCCEEDED", "FAILED"}

\* One upstream HTTP answer: ok, or not ok with/without data.error; an ok
\* answer to GET /tasks/{id} carries the progress figure the API reports and,
\* for a task it has not finished, the status string it reports.
UpOutcomes == {"ok", "error", "error_nomsg"}
ActiveStatuses == {"PENDING", "RUNNING"}
UpAnswer(outcome, status, progress) ==
  [outcome |-> outcome, status |-> status, progress |-> progress]
NoAnswer == UpAnswer(Absent, Absent, 0)
SubmitAnswers == {UpAnswer(o, Absent, 0) : o \in UpOutcomes}
StatusAnswers(t) ==
  {UpAnswer(o, Absent, 0) : o \in UpOutcomes \ {"ok"}}
    \cup {UpAnswer("ok", s, p) :
            s \in (IF t # NoTask /\ tasks[t].status = "ACTIVE"
                   THEN ActiveStatuses ELSE {Absent}),
            p \in 0..ProgressDen}

\* data = await response.json() of GET /tasks/{id}
TaskData(t, up) ==
  [status |-> IF tasks[t].status = "ACTIVE" THEN up.status ELSE tasks[t].status,
   progress |-> up.progress, output |-> tasks[t].output]

\* ------------------------------------------------------------- HTTP shapes
EmptyBody == [success |-> Absent, status |-> Absent, progress |-> NoNum,
              imageUrl |-> NoUrl, videoUrl |-> NoUrl, taskId |-> NoTask,
              error |-> Absent]

\* jsonResponse(data, status = 200)
jsonResponse(data, status) ==
  [code |-> status, contentType |-> "application/json", cors |-> TRUE,
   allowMethods |-> Absent, bodyKind |-> "json", body |-> data]

\* new Response(null, {headers: CORS preflight headers})
PreflightResponse_noMethods ==
  [code |-> 200, contentType |-> Absent, cors |-> TRUE,
   allowMethods |-> Absent, bodyKind |-> "none", body |-> EmptyBody]

PreflightResponse ==
  [code |-> 200, contentType |-> Absent, cors |-> TRUE,
   allowMethods |-> "POST, OPTIONS", bodyKind |-> "none", body |-> EmptyBody]

\* new Response('Method not allowed', {status: 405})
MethodNotAllowed ==
  [code |-> 405, contentType |-> "text/plain", cors |-> FALSE,
   allowMethods |-> Absent, bodyKind |-> "text", body |-> EmptyBody]

ErrBody(msg) == [EmptyBody EXCEPT !.success = "false", !.error = msg]

\* ai.js builds the missing-credential response without jsonResponse:
\* a JSON string body, status 500, no headers given.
MissingKey_ai ==
  [code |-> 500, contentType |-> "text/plain", cors |-> FALSE,
   allowMethods |-> Absent, bodyKind |-> "json",
   body |-> ErrBody("CRITICAL FIX REQUIRED: Check Cloudflare project settings for API Key.")]

MissingKey_part000 ==
  jsonResponse(ErrBody("CRITICAL FIX REQUIRED: Check Cloudflare project settings for RUNWAYML_API_KEY."), 500)

\* catch (error) { return jsonResponse({success:false, error: error.message}, 500) }
Caught(msg) == jsonResponse(ErrBody(msg), 500)

\* data.error || fallback
UpMsg(up, fallback) == IF up.outcome = "error" THEN "upstream error" ELSE fallback

\* --------------------------------------------------------------- requests
BaseReq == [method |-> "POST", ctype |-> "application/json", action |-> Absent,
            prompt |-> FALSE, image |-> FALSE, videoPrompt |-> FALSE,
            imageUrl |-> FALSE, taskId |-> NoTask]

Requests ==
  {[BaseReq EXCEPT !.method = m, !.ctype = Absent] : m \in {"OPTIONS", "GET"}}
  \cup {[BaseReq EXCEPT !.ctype = "text/plain"]}
  \cup {[BaseReq EXCEPT !.ctype = "multipart/form-data", !.prompt = p, !.image = i] :
          p \in BOOLEAN, i \in BOOLEAN}
  \cup {[BaseReq EXCEPT !.action = "generateImage", !.prompt = p] : p \in BOOLEAN}
  \cup {[BaseReq EXCEPT !.action = "startVideoFromUrl", !.videoPrompt = p, !.imageUrl = i] :
          p \in BOOLEAN, i \in BOOLEAN}
  \cup {[BaseReq EXCEPT !.action = "status", !.taskId = t] : t \in TaskIds \cup {NoTask}}
  \cup {[BaseReq EXCEPT !.action = "bogus"]}

\* What handling one request did: the response, the upstream operations
\* called, the store operations called, and the state it leaves.
Outcome(resp, calls, ops, k, d, t) ==
  [resp |-> resp, upCalls |-> calls, kvOps |-> ops, kv |-> k, dels |-> d, tasks |-> t]

NoEffect(resp) == Outcome(resp, {}, {}, kv, pendingDeletes, tasks)

\* The upstream API accepts a submission: a new task exists.
Created(id) == [tasks EXCEPT ![id] = [status |-> "ACTIVE", output |-> NoUrl]]

\* ------------------------------------------------ functions/ai.js handler
\* if (env.TASK_INFO_KV) await env.TASK_INFO_KV.put(data.id, {type})
putTaskInfo_dropped(id, type) == kv

putTaskInfo(id, type) == IF env.TASK_INFO_KV THEN [kv EXCEPT ![id] = type] ELSE kv

\* startImageToVideoJob: POST /image_to_video, then record {type:'video'}.
startImageToVideoJob(up, putFails) ==
  IF up.outcome # "ok"
  THEN Outcome(Caught(UpMsg(up, "Runway I2V API returned status")),
               {"image_to_video"}, {}, kv, pendingDeletes, tasks)
  ELSE LET id == FreshId IN
       IF env.TASK_INFO_KV /\ putFails
       THEN Outcome(Caught("store put rejected"),
                    {"image_to_video"}, {"put"}, kv, pendingDeletes, Created(id))
       ELSE Outcome(jsonResponse([EmptyBody EXCEPT !.success = "true", !.taskId = id,
                                                   !.status = "PENDING"], 200),
                    {"image_to_video"},
                    IF env.TASK_INFO_KV THEN {"put"} ELSE {},
                    putTaskInfo(id, "video"),
                    pendingDeletes, Created(id))

\* multipart branch: prompt and image are required, then the job is started.
multipart_ai(req, up, putFails) ==
  IF ~req.prompt \/ ~req.image
  THEN NoEffect(Caught("Request is missing prompt or image file."))
  ELSE startImageToVideoJob(up, putFails)

\* if (!prompt) throw new Error('Image prompt is missing.')
promptMissing_unchecked(req) == FALSE

promptMissing(req) == ~req.prompt

\* case 'generateImage': POST /text_to_image, then record {type:'image'}.
generateImage(req, up, putFails) ==
  IF promptMissing(req)
  THEN NoEffect(Caught("Image prompt is missing."))
  ELSE IF up.outcome # "ok"
  THEN Outcome(Caught(UpMsg(up, "Runway T2I API error")),
               {"text_to_image"}, {}, kv, pendingDeletes, tasks)
  ELSE LET id == FreshId IN
       IF env.TASK_INFO_KV /\ putFails
       THEN Outcome(Caught("store put rejected"),
                    {"text_to_image"}, {"put"}, kv, pendingDeletes, Created(id))
       ELSE Outcome(jsonResponse([EmptyBody EXCEPT !.success = "true", !.taskId = id], 200),
                    {"text_to_image"},
                    IF env.TASK_INFO_KV THEN {"put"} ELSE {},
                    putTaskInfo(id, "image"),
                    pendingDeletes, Created(id))

\* case 'startVideoFromUrl'
startVideoFromUrl(req, up, putFails) ==
  IF ~req.videoPrompt \/ ~req.imageUrl
  THEN NoEffect(Caught("Missing video prompt or image URL."))
  ELSE startImageToVideoJob(up, putFails)

\* let taskType = 'video'; if (taskInfo?.type) taskType = taskInfo.type
taskTypeOf_ignoresStore(taskId) == "video"

taskTypeOf_defaultImage(taskId) ==
  IF env.TASK_INFO_KV /\ kv[taskId] # "none" THEN kv[taskId] ELSE "image"

taskTypeOf(taskId) ==
  IF env.TASK_INFO_KV /\ kv[taskId] # "none" THEN kv[taskId] ELSE "video"

\* case 'status', data.status === 'SUCCEEDED' && data.output?.[0]
statusSucceeded_ai(taskId, data, getFails) ==
  IF env.TASK_INFO_KV /\ getFails
  THEN Outcome(Caught("store get rejected"), {"tasks"}, {"get"}, kv, pendingDeletes, tasks)
  ELSE LET base == [EmptyBody EXCEPT !.success = "true", !.status = data.status,
                                     !.progress = data.progress]
           successPayload == IF taskTypeOf(taskId) = "image"
                             THEN [base EXCEPT !.imageUrl = data.output]
                             ELSE [base EXCEPT !.videoUrl = data.output]
       IN Outcome(jsonResponse(successPayload, 200), {"tasks"},
                  IF env.TASK_INFO_KV THEN {"get", "delete"} ELSE {},
                  kv,
                  IF env.TASK_INFO_KV THEN pendingDeletes \cup {taskId} ELSE pendingDeletes,
                  tasks)

\* return jsonResponse({success: true, status: data.status, progress: data.progress})
statusInProgress_cleansUp(taskId, data) ==
  Outcome(jsonResponse([EmptyBody EXCEPT !.success = "true", !.status = data.status,
                                         !.progress = data.progress], 200),
          {"tasks"}, IF env.TASK_INFO_KV THEN {"delete"} ELSE {}, kv,
          IF env.TASK_INFO_KV THEN pendingDeletes \cup {taskId} ELSE pendingDeletes, tasks)

statusInProgress(taskId, data) ==
  Outcome(jsonResponse([EmptyBody EXCEPT !.success = "true", !.status = data.status,
                                         !.progress = data.progress], 200),
          {"tasks"}, {}, kv, pendingDeletes, tasks)

\* case 'status'
status_ai(req, up, getFails) ==
  IF req.taskId = NoTask
  THEN NoEffect(Caught("Invalid status check request."))
  ELSE IF up.outcome # "ok"
  THEN Outcome(Caught(UpMsg(up, "Status check failed")), {"tasks"}, {}, kv, pendingDeletes, tasks)
  ELSE LET data == TaskData(req.taskId, up) IN
       IF data.status = "SUCCEEDED" /\ data.output # NoUrl
       THEN statusSucceeded_ai(req.taskId, data, getFails)
       ELSE statusInProgress(req.taskId, data)

onRequest_ai(req, up, storeFails) ==
  IF req.method = "OPTIONS" THEN NoEffect(PreflightResponse)
  ELSE IF req.method # "POST" THEN NoEffect(MethodNotAllowed)
  ELSE IF ~env.RUNWAYML_API_KEY THEN NoEffect(MissingKey_ai)
  ELSE IF req.ctype = "multipart/form-data" THEN multipart_ai(req, up, storeFails)
  ELSE IF req.ctype = "application/json"
  THEN CASE req.action = "generateImage" -> generateImage(req, up, storeFails)
         [] req.action = "startVideoFromUrl" -> startVideoFromUrl(req, up, storeFails)
         [] req.action = "status" -> status_ai(req, up, storeFails)
         [] OTHER -> NoEffect(Caught("Invalid action specified."))
  ELSE NoEffect(Caught("Invalid request content-type."))

\* -------------------------------------- image-to-image handler (part_000)
\* multipart branch: POST /text_to_image with the uploaded image; no store.
multipart_part000(req, up) ==
  IF ~req.prompt \/ ~req.image
  THEN NoEffect(Caught("Request is missing prompt or image file."))
  ELSE IF up.outcome # "ok"
  THEN Outcome(Caught(UpMsg(up, "Runway API Error")),
               {"text_to_image"}, {}, kv, pendingDeletes, tasks)
  ELSE Outcome(jsonResponse([EmptyBody EXCEPT !.success = "true", !.taskId = FreshId], 200),
               {"text_to_image"}, {}, kv, pendingDeletes, Created(FreshId))

\* action === 'status'
status_part000(req, up) ==
  IF req.taskId = NoTask
  THEN NoEffect(Caught("Task ID is missing for status check."))
  ELSE IF up.outcome # "ok"
  THEN Outcome(Caught(UpMsg(up, "Status check failed")), {"tasks"}, {}, kv, pendingDeletes, tasks)
  ELSE LET data == TaskData(req.taskId, up) IN
       IF data.status = "SUCCEEDED"
       THEN IF data.output # NoUrl
            THEN Outcome(jsonResponse([EmptyBody EXCEPT !.success = "true",
                                         !.status = data.status, !.progress = data.progress,
                                         !.imageUrl = data.output], 200),
                         {"tasks"}, {}, kv, pendingDeletes, tasks)
            ELSE Outcome(jsonResponse([EmptyBody EXCEPT !.success = "false",
                                         !.status = "FAILED",
                                         !.error = "Task succeeded but output was empty."], 200),
                         {"tasks"}, {}, kv, pendingDeletes, tasks)
       ELSE statusInProgress(req.taskId, data)

onRequest_part000(req, up) ==
  IF req.method = "OPTIONS" THEN NoEffect(PreflightResponse)
  ELSE IF req.method # "POST" THEN NoEffect(MethodNotAllowed)
  ELSE IF ~env.RUNWAYML_API_KEY THEN NoEffect(MissingKey_part000)
  ELSE IF req.ctype = "multipart/form-data" THEN multipart_part000(req, up)
  ELSE IF req.ctype = "application/json"
  THEN IF req.action = "status" THEN status_part000(req, up)
       ELSE NoEffect(Caught("Invalid action specified."))
  ELSE NoEffect(Caught("Invalid request content-type"))

\* POST /ai is served by whichever handler file is deployed.
onRequest(req, up, storeFails) ==
  IF deployed = "ai" THEN onRequest_ai(req, up, storeFails) ELSE onRequest_part000(req, up)

\* --------------------------------------------------------------- actions
NoRequest ==
  [req |-> [BaseReq EXCEPT !.method = Absent, !.ctype = Absent],
   up |-> Absent, data |-> NoTaskData, issued |-> NoTask,
   stored |-> "none", storedAfter |-> "none", storeFailed |-> FALSE,
   resp |-> PreflightResponse, upCalls |-> {}, kvOps |-> {}]

NotTwice == [same |-> FALSE, resp |-> PreflightResponse, kvOps |-> {}]

Submits(o) == o.upCalls \cap {"text_to_image", "image_to_video"} # {}

\* What the upstream API can answer to this request now: it accepts a
\* submission only while it has an id to issue, and knows only issued tasks.
UpstreamCan(req, up) ==
  up.outcome = "ok" =>
    IF req.ctype = "application/json" /\ req.action = "status"
    THEN req.taskId # NoTask /\ tasks[req.taskId].status # "NONE"
    ELSE FreshId # NoTask

\* The upstream answers that matter to a request: one per outcome when the
\* handler reaches an upstream call, none to choose otherwise.
UpChoices(req) ==
  LET calls == onRequest(req, UpAnswer("error", Absent, 0), FALSE).upCalls IN
  IF calls = {} THEN {NoAnswer}
  ELSE IF "tasks" \in calls THEN StatusAnswers(req.taskId)
  ELSE SubmitAnswers

\* The history record of one handled request.
Handled(req, up, storeFails, o) ==
  [req |-> req,
   up |-> up.outcome,
   data |-> IF "tasks" \in o.upCalls /\ up.outcome = "ok" THEN TaskData(req.taskId, up)
            ELSE NoTaskData,
   issued |-> IF Submits(o) /\ up.outcome = "ok" THEN FreshId ELSE NoTask,
   stored |-> IF "tasks" \in o.upCalls /\ up.outcome = "ok" THEN kv[req.taskId] ELSE "none",
   storedAfter |-> IF "tasks" \in o.upCalls /\ up.outcome = "ok" THEN o.kv[req.taskId]
                   ELSE IF Submits(o) /\ up.outcome = "ok" THEN o.kv[FreshId] ELSE "none",
   storeFailed |-> storeFails /\ o.kvOps # {},
   resp |-> o.resp, upCalls |-> o.upCalls, kvOps |-> o.kvOps]

\* One request to POST /ai, handled from receipt to response.
HandleRequest(req, up, storeFails) ==
  /\ UpstreamCan(req, up)
  /\ LET o == onRequest(req, up, storeFails)
         h == Handled(req, up, storeFails, o)
     IN
       /\ kv' = o.kv
       /\ pendingDeletes' = o.dels
       /\ tasks' = o.tasks
       /\ last' = h
       /\ twice' = IF /\ req.action = "status"
                      /\ last.req = req /\ last.up = h.up /\ last.data = h.data
                   THEN [same |-> TRUE, resp |-> last.resp, kvOps |-> last.kvOps]
                   ELSE NotTwice
  /\ UNCHANGED <<deployed, env, storeMayFail>>

\* The promise handed to context.waitUntil settles: the record is deleted,
\* or the delete rejects and the record stays.
DeleteSettles(t, rejects) ==
  /\ t \in pendingDeletes
  /\ pendingDeletes' = pendingDeletes \ {t}
  /\ kv' = IF rejects THEN kv ELSE [kv EXCEPT ![t] = "none"]
  /\ UNCHANGED <<deployed, env, storeMayFail, tasks, last, twice, recordVars>>

\* The upstream API works on a task (the proxy never changes a task's state).
UpstreamAdvance(t) ==
  /\ tasks[t].status = "ACTIVE"
  /\ \E s \in {"SUCCEEDED", "FAILED"}, hasOut \in BOOLEAN :
       /\ s # "SUCCEEDED" => ~hasOut
       /\ tasks' = [tasks EXCEPT ![t] =
                      [status |-> s, output |-> IF hasOut THEN UrlOf(t) ELSE NoUrl]]
  /\ UNCHANGED <<deployed, env, storeMayFail, kv, pendingDeletes, last, twice, recordVars>>

StoreFaults == IF storeMayFail THEN BOOLEAN ELSE {FALSE}

InitServer(faults) ==
  /\ deployed \in {"ai", "part_000"}
  /\ env \in [RUNWAYML_API_KEY : BOOLEAN, TASK_INFO_KV : BOOLEAN]
  /\ deployed = "part_000" => ~env.TASK_INFO_KV    \* part_000 never reads the binding
  /\ storeMayFail = faults
  /\ tasks = [t \in TaskIds |-> NoTaskState]
  /\ kv = [t \in TaskIds |-> "none"]
  /\ pendingDeletes = {}
  /\ last = NoRequest
  /\ twice = NotTwice
  /\ submitted = [t \in TaskIds |-> "none"]
  /\ observed = {}

\* ------------------------------------------------------- src/App.jsx
NoTimer == 0

\* Prompt texts: strings over a blank and a letter.
Chars == {" ", "a"}
Prompts == UNION {[1..n -> Chars] : n \in 0..MaxPromptLen}

\* String.prototype.trim
RECURSIVE trimStart(_)
trimStart(p) == IF p # <<>> /\ Head(p) = " " THEN trimStart(Tail(p)) ELSE p

RECURSIVE trimEnd(_)
trimEnd(p) == IF p # <<>> /\ p[Len(p)] = " " THEN trimEnd(SubSeq(p, 1, Len(p) - 1)) ELSE p

trim_keepsBlanks(p) == p

trim(p) == trimEnd(trimStart(p))

StatusText(t) == [text |-> t, status |-> Absent, pct |-> NoNum]
\* `Status: ${statusData.status} (${progressPercentage.toFixed(0)}%)`
StatusLine(s, pct) == [text |-> "Status", status |-> s, pct |-> pct]

\* The useState initial values.
InitialState ==
  [prompt |-> <<>>, modifiedImageUrl |-> NoUrl, isGenerating |-> FALSE,
   progress |-> 0, status |-> StatusText(""), error |-> "", selectedFile |-> FALSE]

\* resetState
resetState(u) ==
  [u EXCEPT !.modifiedImageUrl = NoUrl, !.isGenerating = FALSE, !.progress = 0,
            !.status = StatusText(""), !.error = ""]

\* A state setter of an unmounted component changes nothing.
Set(u) == IF mounted THEN u ELSE ui

Files == {"valid", "badtype", "toolarge"}

\* handleFileSelect, for a file the user picked
handleFileSelect(file) ==
  /\ mounted
  /\ inputs < MaxInputs
  /\ inputs' = inputs + 1
  /\ ui' = LET r == resetState(ui) IN
           CASE file = "badtype" ->
                  [r EXCEPT !.error = "Please select a valid image format (JPEG, PNG, WebP)"]
             [] file = "toolarge" ->
                  [r EXCEPT !.error = "The file is too large. Maximum 10MB allowed."]
             [] OTHER -> [r EXCEPT !.selectedFile = TRUE, !.error = ""]
  /\ UNCHANGED <<mounted, pollIntervalRef, intervals, uploads, polls, hist>>
  /\ UNCHANGED serverVars

\* removeFile: the button is rendered with the preview
removeFile ==
  /\ mounted
  /\ inputs < MaxInputs
  /\ inputs' = inputs + 1
  /\ ui.selectedFile
  /\ ui' = resetState([ui EXCEPT !.selectedFile = FALSE])
  /\ UNCHANGED <<mounted, pollIntervalRef, intervals, uploads, polls, hist>>
  /\ UNCHANGED serverVars

\* onChange of the prompt input, rendered once a file is selected
setPrompt(v) ==
  /\ mounted
  /\ inputs < MaxInputs
  /\ inputs' = inputs + 1
  /\ ui.selectedFile
  /\ v # ui.prompt
  /\ ui' = [ui EXCEPT !.prompt = v]
  /\ UNCHANGED <<mounted, pollIntervalRef, intervals, uploads, polls, hist>>
  /\ UNCHANGED serverVars

\* The submit button is rendered once a file is selected, and
\* disabled={isGenerating || !prompt.trim()}
CanClick == ui.selectedFile /\ ~ui.isGenerating /\ trim(ui.prompt) # <<>>

NoResp == PreflightResponse
Submitted == Len(uploads)

\* generateModifiedImage up to its await fetch('/ai', ...)
generateModifiedImage ==
  /\ mounted
  /\ Submitted < MaxSubmits
  /\ IF ~ui.selectedFile \/ trim(ui.prompt) = <<>>
     THEN /\ ui' = [ui EXCEPT !.error = "Please upload an image and provide a modification prompt."]
          /\ UNCHANGED <<uploads, hist>>
     ELSE /\ ui' = [resetState(ui) EXCEPT !.isGenerating = TRUE,
                       !.status = StatusText("Uploading image and starting job...")]
          /\ uploads' = Append(uploads, [stage |-> "sent", resp |-> NoResp])
          /\ hist' = Append(hist, [requests |-> 0, responses |-> <<>>])
  /\ UNCHANGED <<mounted, pollIntervalRef, intervals, polls, inputs>>
  /\ UNCHANGED serverVars

\* onClick={generateModifiedImage} of the submit button
Click == CanClick /\ generateModifiedImage

\* The multipart request the page sends: prompt, image and ratio fields.
UploadReq == [BaseReq EXCEPT !.ctype = "multipart/form-data", !.prompt = TRUE, !.image = TRUE]

\* The status request of pollForStatus(taskId).
StatusReq(t) == [BaseReq EXCEPT !.action = "status", !.taskId = t]

\* The handler serves a request of the page: o is what handling it does.
Serve(o) ==
  /\ kv' = o.kv
  /\ pendingDeletes' = o.dels
  /\ tasks' = o.tasks
  /\ UNCHANGED <<deployed, env, storeMayFail, last, twice, recordVars>>

ServeUpload(k, up, storeFails) ==
  /\ uploads[k].stage = "sent"
  /\ UpstreamCan(UploadReq, up)
  /\ LET o == onRequest(UploadReq, up, storeFails) IN
       /\ Serve(o)
       /\ uploads' = [uploads EXCEPT ![k] = [stage |-> "answered", resp |-> o.resp]]
  /\ UNCHANGED <<ui, mounted, pollIntervalRef, intervals, polls, hist, inputs>>

\* response.ok
ok(resp) == resp.code >= 200 /\ resp.code <= 299

\* pollForStatus: pollIntervalRef.current = setInterval(..., 4000)
pollForStatus_clearsFirst(k) ==
  /\ pollIntervalRef' = k
  /\ intervals' = (intervals \ {pollIntervalRef}) \cup {k}

pollForStatus(k) ==
  /\ pollIntervalRef' = k
  /\ intervals' = intervals \cup {k}

\* generateModifiedImage after its await when the fetch rejects (network
\* error): catch (err) { setError(err.message); setIsGenerating(false) }
UploadRejects(k) ==
  /\ uploads[k].stage = "sent"
  /\ ui' = Set([ui EXCEPT !.error = "Failed to fetch", !.isGenerating = FALSE])
  /\ uploads' = [uploads EXCEPT ![k].stage = "failed"]
  /\ UNCHANGED <<mounted, pollIntervalRef, intervals, polls, hist, inputs>>
  /\ UNCHANGED serverVars

\* generateModifiedImage after its await: the response
UploadReturns(k) ==
  /\ uploads[k].stage = "answered"
  /\ LET resp == uploads[k].resp IN
     IF ~ok(resp) \/ resp.body.success # "true"
     THEN /\ ui' = Set([ui EXCEPT !.error = IF resp.body.error # Absent THEN resp.body.error
                                            ELSE "Failed to start image modification",
                                  !.isGenerating = FALSE])
          /\ uploads' = [uploads EXCEPT ![k].stage = "failed"]
          /\ UNCHANGED <<pollIntervalRef, intervals>>
     ELSE /\ ui' = Set([ui EXCEPT !.status = StatusText("Job started, processing image...")])
          /\ uploads' = [uploads EXCEPT ![k].stage = "polling"]
          /\ pollForStatus(k)
  /\ UNCHANGED <<mounted, polls, hist, inputs>>
  /\ UNCHANGED serverVars

\* The task id in the closure of timer k's callback.
TaskOf(k) == uploads[k].resp.body.taskId

\* Status requests issued so far.
RECURSIVE SumRequests(_)
SumRequests(k) == IF k = 0 THEN 0 ELSE hist[k].requests + SumRequests(k - 1)

Polled == SumRequests(Len(hist))

\* The interval fires: the callback runs up to its await fetch.
Tick(k) ==
  /\ k \in intervals
  /\ Polled < MaxPolls
  /\ polls' = polls \cup {[timer |-> k, n |-> hist[k].requests + 1,
                           stage |-> "sent", resp |-> NoResp]}
  /\ hist' = [hist EXCEPT ![k].requests = @ + 1]
  /\ UNCHANGED <<ui, mounted, pollIntervalRef, intervals, uploads, inputs>>
  /\ UNCHANGED serverVars

ServePoll(p, up, storeFails) ==
  /\ p.stage = "sent"
  /\ UpstreamCan(StatusReq(TaskOf(p.timer)), up)
  /\ LET o == onRequest(StatusReq(TaskOf(p.timer)), up, storeFails) IN
       /\ Serve(o)
       /\ polls' = (polls \ {p}) \cup {[p EXCEPT !.stage = "answered", !.resp = o.resp]}
  /\ UNCHANGED <<ui, mounted, pollIntervalRef, intervals, uploads, hist, inputs>>

\* (statusData.progress * 100) || 0
progressPercentage(progress) ==
  IF progress = NoNum THEN 0 ELSE (progress * 100) \div ProgressDen

\* What a settled status fetch is to the callback.
KindOf(p) ==
  IF p.stage = "sent" \/ ~ok(p.resp) \/ p.resp.body.success # "true" THEN "error"
  ELSE IF p.resp.body.status = "SUCCEEDED"
  THEN IF p.resp.body.imageUrl # NoUrl THEN "succeeded_url" ELSE "succeeded_nourl"
  ELSE IF p.resp.body.status = "FAILED" THEN "failed"
  ELSE "in_progress"

\* catch (pollError): setError, setIsGenerating(false), clearInterval
pollCatch(u, msg) == [u EXCEPT !.error = msg, !.isGenerating = FALSE]

\* clearInterval(pollIntervalRef.current)
clearInterval_nothing(id) == intervals

clearInterval(id) == intervals \ {id}

\* The interval callback after its await: the response, or (rejects) the
\* fetch rejecting with a network error, which lands in the catch
pollCallback(p, rejects) ==
  /\ p.stage = IF rejects THEN "sent" ELSE "answered"
  /\ polls' = polls \ {p}
  /\ LET body == p.resp.body
         pct == progressPercentage(body.progress)
         shown == [ui EXCEPT !.status = StatusLine(body.status, pct), !.progress = pct]
     IN
     CASE KindOf(p) = "error" ->
            /\ ui' = Set(pollCatch(ui, IF rejects THEN "Failed to fetch"
                                       ELSE IF body.error # Absent THEN body.error
                                       ELSE "Failed to check task status"))
            /\ intervals' = clearInterval(pollIntervalRef)
       [] KindOf(p) = "succeeded_url" ->
            /\ ui' = Set([shown EXCEPT !.modifiedImageUrl = body.imageUrl,
                                       !.status = StatusText("Image generation completed!"),
                                       !.isGenerating = FALSE])
            /\ intervals' = clearInterval(pollIntervalRef)
       [] KindOf(p) = "succeeded_nourl" ->
            /\ ui' = Set(pollCatch(shown, "Task succeeded but no image URL was returned."))
            /\ intervals' = clearInterval(pollIntervalRef)
       [] KindOf(p) = "failed" ->
            /\ ui' = Set(pollCatch(shown, "Image generation failed"))
            /\ intervals' = clearInterval(pollIntervalRef)
       [] OTHER ->
            /\ ui' = Set(shown)
            /\ UNCHANGED intervals
  /\ UNCHANGED <<mounted, pollIntervalRef, uploads, inputs>>
  /\ UNCHANGED serverVars

\* The callback, with the record of what it handled.
PollReturns(p, rejects) ==
  /\ pollCallback(p, rejects)
  /\ hist' = [hist EXCEPT ![p.timer].responses = Append(@, KindOf(p))]

\* The component unmounts: the cleanup returned by useEffect(..., []) runs,
\* and React discards the component's state.
Unmount ==
  /\ mounted
  /\ mounted' = FALSE
  /\ intervals' = IF pollIntervalRef # NoTimer THEN clearInterval(pollIntervalRef) ELSE intervals
  /\ ui' = InitialState
  /\ UNCHANGED <<pollIntervalRef, uploads, polls, hist, inputs>>
  /\ UNCHANGED serverVars

InitClient ==
  /\ ui = InitialState
  /\ mounted = TRUE
  /\ pollIntervalRef = NoTimer
  /\ intervals = {}
  /\ uploads = <<>>
  /\ polls = {}
  /\ hist = <<>>
  /\ inputs = 0

Init == InitServer(FALSE) /\ InitClient

InitStoreFault == InitServer(TRUE) /\ InitClient

\* The upstream answers to the page's requests: a failure carries a message.
PageUpChoices(req) == {up \in UpChoices(req) : up.outcome # "error_nomsg"}

\* The page is served by a configured deployment of either handler.
InitPage ==
  /\ InitServer(FALSE)
  /\ InitClient
  /\ env.RUNWAYML_API_KEY
  /\ env.TASK_INFO_KV = (deployed = "ai")

\* The proxy under requests from any caller.
Next ==
  \/ \E req \in Requests : \E up \in UpChoices(req), f \in StoreFaults :
       HandleRequest(req, up, f) /\ UNCHANGED recordVars /\ UNCHANGED clientVars
  \/ \E t \in TaskIds, f \in StoreFaults : DeleteSettles(t, f) /\ UNCHANGED clientVars
  \/ \E t \in TaskIds : UpstreamAdvance(t) /\ UNCHANGED clientVars

\* The page, its user, the proxy serving the page's requests, and the upstream API.
NextClient ==
  \/ \E file \in Files : handleFileSelect(file)
  \/ removeFile
  \/ \E v \in Prompts : setPrompt(v)
  \/ Click
  \/ \E k \in DOMAIN uploads : \E up \in PageUpChoices(UploadReq), f \in StoreFaults :
       ServeUpload(k, up, f)
  \/ \E k \in DOMAIN uploads : UploadRejects(k)
  \/ \E k \in DOMAIN uploads : UploadReturns(k)
  \/ \E k \in intervals : Tick(k)
  \/ \E p \in polls : \E up \in PageUpChoices(StatusReq(TaskOf(p.timer))), f \in StoreFaults :
       ServePoll(p, up, f)
  \/ \E p \in polls, rejects \in BOOLEAN : PollReturns(p, rejects)
  \/ Unmount
  \/ \E t \in TaskIds, f \in StoreFaults : DeleteSettles(t, f) /\ UNCHANGED clientVars
  \/ \E t \in TaskIds : UpstreamAdvance(t) /\ UNCHANGED clientVars

\* The proxy with a store whose calls always complete.
Spec == Init /\ [][Next]_vars

\* The proxy with a store whose calls may reject.
SpecStoreFault == InitStoreFault /\ [][Next]_vars

\* The page against the proxy.
SpecClient == InitPage /\ [][NextClient]_vars

TypeOK ==
  /\ deployed \in {"ai", "part_000"}
  /\ kv \in [TaskIds -> {"none", "image", "video"}]
  /\ pendingDeletes \subseteq TaskIds

\* ------------------------------------------------------ request shapes
IsPost(r) == r.req.method = "POST"
IsMultipart(r) == IsPost(r) /\ r.req.ctype = "multipart/form-data"
IsAction(r, a) == IsPost(r) /\ r.req.ctype = "application/json" /\ r.req.action = a

\* A status request that the upstream API answered.
StatusAnswered(r) == IsAction(r, "status") /\ r.up = "ok"

SucceededWith(r) == StatusAnswered(r) /\ r.data.status = "SUCCEEDED" /\ r.data.output # NoUrl
SucceededEmpty(r) == StatusAnswered(r) /\ r.data.status = "SUCCEEDED" /\ r.data.output = NoUrl

\* A submission that lacks a required field.
LacksRequired(r) ==
  \/ IsMultipart(r) /\ (~r.req.prompt \/ ~r.req.image)
  \/ IsAction(r, "generateImage") /\ ~r.req.prompt
  \/ IsAction(r, "startVideoFromUrl") /\ (~r.req.videoPrompt \/ ~r.req.imageUrl)

\* ---------------------------------------------------------------- claims
\* C1: every submission that lacks a required field is answered with
\* success:false, and no upstream submit operation (text_to_image or
\* image_to_video) is called while handling it.
C1_MalformedRejected ==
  LacksRequired(last) =>
    /\ last.resp.body.success = "false"
    /\ last.upCalls \cap {"text_to_image", "image_to_video"} = {}

C1_Witness ==
  /\ IsAction(last, "generateImage") /\ ~last.req.prompt
  /\ env.RUNWAYML_API_KEY /\ deployed = "ai"
  /\ last.resp.body.error = "Image prompt is missing."
  /\ FreshId # NoTask

\* The responses timer k's callback has handled are n in-progress ones.
AllInProgress(r) == \A i \in 1..Len(r) : r[i] = "in_progress"

\* The callback of timer k handles, in this step, a terminal-success response
\* with an image URL, after in-progress responses only, and no other status
\* request of that timer is in flight.
SucceedsNow(k) ==
  /\ hist[k]'.responses = Append(hist[k].responses, "succeeded_url")
  /\ AllInProgress(hist[k].responses)
  /\ \A p \in polls' : p.timer # k

\* C2: when the status responses of a job are n in-progress responses and
\* then one terminal-success response with a result URL, the controller has
\* issued exactly n+1 status requests, shows Succeeded with that URL, and
\* the job's timer is stopped (so it issues no further status request).
C2_PollUntilSuccess ==
  [][\A k \in DOMAIN hist :
       SucceedsNow(k) =>
         /\ hist[k].requests = Len(hist[k].responses) + 1
         /\ k \notin intervals'
         /\ mounted => /\ ui'.modifiedImageUrl = UrlOf(TaskOf(k))
                        /\ ui'.status = StatusText("Image generation completed!")
                        /\ ~ui'.isGenerating]_vars

\* C3: at most one polling timer is active at any moment, whatever the user
\* does (select a file, remove it, edit the prompt, submit).
C3_SinglePoller == Cardinality(intervals) <= 1

\* C4: a status request for which the upstream API reports SUCCEEDED with an
\* empty or absent output is answered {success:false, status:"FAILED",
\* error:"Task succeeded but output was empty."}.
C4_EmptyOutputIsFailure ==
  SucceededEmpty(last) =>
    last.resp.body = [EmptyBody EXCEPT !.success = "false", !.status = "FAILED",
                                       !.error = "Task succeeded but output was empty."]

\* C5: a status request for which the upstream API reports SUCCEEDED with a
\* first output URL u, while the store holds kind image for the task, is
\* answered {success:true, status:"SUCCEEDED", progress, imageUrl:u} with no
\* videoUrl field, and the deletion of the task's record is triggered.
C5_ImageKindAnswer ==
  (SucceededWith(last) /\ env.TASK_INFO_KV /\ last.stored = "image") =>
    /\ last.resp.code = 200
    /\ last.resp.body = [EmptyBody EXCEPT !.success = "true", !.status = "SUCCEEDED",
                                          !.progress = last.data.progress,
                                          !.imageUrl = last.data.output]
    /\ "delete" \in last.kvOps

C5_Witness ==
  /\ SucceededWith(last) /\ env.TASK_INFO_KV /\ last.stored = "image"
  /\ last.resp.body.imageUrl = UrlOf(last.req.taskId)
  /\ last.req.taskId \in pendingDeletes

\* C6: a generateImage request with a prompt whose text_to_image call
\* succeeds with id t is answered {success:true, taskId:t}, and with the
\* store bound the store holds kind image under t when the response is made.
C6_GenerateImageRecorded ==
  (IsAction(last, "generateImage") /\ last.req.prompt
     /\ "text_to_image" \in last.upCalls /\ last.up = "ok") =>
    /\ last.issued \in TaskIds
    /\ last.resp.code = 200
    /\ last.resp.body = [EmptyBody EXCEPT !.success = "true", !.taskId = last.issued]
    /\ env.TASK_INFO_KV => last.storedAfter = "image"

C6_Witness ==
  /\ IsAction(last, "generateImage") /\ last.up = "ok" /\ env.TASK_INFO_KV
  /\ last.resp.body.taskId \in TaskIds
  /\ kv[last.resp.body.taskId] = "image"

\* C7: the same status request issued twice while the upstream state is
\* unchanged and non-terminal gets the same {success:true, status, progress}
\* answer both times, without a URL field, and neither request writes to or
\* deletes from the store.
C7_StatusIdempotent ==
  (twice.same /\ StatusAnswered(last) /\ ~Terminal(last.data.status)) =>
    /\ last.resp = twice.resp
    /\ last.resp.body = [EmptyBody EXCEPT !.success = "true",
                                          !.status = last.data.status,
                                          !.progress = last.data.progress]
    /\ last.kvOps \cap {"put", "delete"} = {}
    /\ twice.kvOps \cap {"put", "delete"} = {}
    /\ last.storedAfter = last.stored

C7_Witness ==
  /\ twice.same /\ StatusAnswered(last) /\ last.data.status = "RUNNING"
  /\ env.TASK_INFO_KV /\ last.stored = "image"

\* C8: in functions/ai.js, a status request for which the upstream API
\* reports SUCCEEDED with an output URL, while the store has no record for
\* the task or no store is bound, is answered with success and the URL in
\* videoUrl; no error is raised.
C8_AbsentRecordIsVideo ==
  (deployed = "ai" /\ SucceededWith(last) /\ (~env.TASK_INFO_KV \/ last.stored = "none")) =>
    /\ last.resp.code = 200
    /\ last.resp.body.success = "true"
    /\ last.resp.body.error = Absent
    /\ last.resp.body.videoUrl = last.data.output
    /\ last.resp.body.imageUrl = NoUrl

C8_Witness ==
  /\ deployed = "ai" /\ SucceededWith(last) /\ env.TASK_INFO_KV /\ last.stored = "none"
  /\ last.resp.body.videoUrl = UrlOf(last.req.taskId)

C8_WitnessUnbound ==
  /\ deployed = "ai" /\ SucceededWith(last) /\ ~env.TASK_INFO_KV
  /\ last.resp.body.videoUrl = UrlOf(last.req.taskId)

\* C9: in functions/ai.js, store operations are best-effort: a request whose
\* upstream call succeeds is answered with success also when the store is
\* unbound or its put/get/delete rejects, and the job then counts as video.
C9_StoreBestEffort ==
  (deployed = "ai" /\ IsPost(last) /\ last.up = "ok"
     /\ (~env.TASK_INFO_KV \/ last.storeFailed)) =>
    /\ last.resp.code = 200
    /\ last.resp.body.success = "true"
    /\ SucceededWith(last) => last.resp.body.videoUrl = last.data.output

\* C10: with the store bound, a status request that observes a terminal
\* upstream state (SUCCEEDED or FAILED) triggers the deletion of the job's
\* record, and the record is read and deleted at most once.
C10_TerminalCleansUp ==
  (deployed = "ai" /\ env.TASK_INFO_KV /\ StatusAnswered(last)
     /\ Terminal(last.data.status)) =>
    /\ "delete" \in last.kvOps
    /\ twice.same => twice.kvOps \cap {"get", "delete"} = {}

\* ------------------------------------------------------ job records
\* The kind a submission asks for: POST /text_to_image makes an image,
\* POST /image_to_video a video.
SubmissionKind(r) == IF "text_to_image" \in r.upCalls THEN "image" ELSE "video"

\* The response of r hands a job id to the caller.
ReturnsId(r) == r.issued # NoTask /\ r.resp.body.success = "true" /\ r.resp.body.taskId = r.issued

\* The response of r relays a terminal upstream state to the caller.
RelaysTerminal(r) ==
  StatusAnswered(r) /\ Terminal(r.data.status) /\ r.resp.body.success # Absent
    /\ r.resp.body.status # Absent

\* Bookkeeping of the request just handled.
Recorded ==
  /\ submitted' = IF ReturnsId(last')
                  THEN [submitted EXCEPT ![last'.issued] = SubmissionKind(last')]
                  ELSE submitted
  /\ observed' = IF RelaysTerminal(last')
                 THEN observed \cup {last'.req.taskId}
                 ELSE observed

\* Either handler deployed with the credential and the store binding configured.
InitBound ==
  /\ deployed \in {"ai", "part_000"}
  /\ env = [RUNWAYML_API_KEY |-> TRUE, TASK_INFO_KV |-> TRUE]
  /\ storeMayFail \in BOOLEAN
  /\ tasks = [t \in TaskIds |-> NoTaskState]
  /\ kv = [t \in TaskIds |-> "none"]
  /\ pendingDeletes = {}
  /\ last = NoRequest
  /\ twice = NotTwice
  /\ submitted = [t \in TaskIds |-> "none"]
  /\ observed = {}
  /\ InitClient

NextRecords ==
  \/ \E req \in Requests : \E up \in UpChoices(req), f \in StoreFaults :
       HandleRequest(req, up, f) /\ Recorded /\ UNCHANGED clientVars
  \/ \E t \in TaskIds, f \in StoreFaults : DeleteSettles(t, f) /\ UNCHANGED clientVars
  \/ \E t \in TaskIds : UpstreamAdvance(t) /\ UNCHANGED clientVars

\* The proxy with the store bound, with the history of its jobs.
SpecRecords == InitBound /\ [][NextRecords]_vars

\* C11: with the store configured, a record exists for every job id that a
\* successful submission returned (multipart, generateImage,
\* startVideoFromUrl), in every state from the submission's response until
\* the first status response that relays a terminal state.
C11_RecordUntilTerminal ==
  \A t \in TaskIds :
    (env.TASK_INFO_KV /\ submitted[t] # "none" /\ t \notin observed) => kv[t] # "none"

\* A POST request that fails for one of the causes the handlers know: missing
\* credential, validation / invalid action / invalid content type (no
\* upstream call is reached), upstream error, empty output.
FailureCause(r) ==
  /\ IsPost(r)
  /\ \/ ~env.RUNWAYML_API_KEY
     \/ r.upCalls = {}
     \/ r.up \in {"error", "error_nomsg"}
     \/ SucceededEmpty(r)

\* C12: every failure of a POST request is answered {success:false,
\* error:<message>} with HTTP status 500, and no response with success:false
\* has another status.
C12_FailureIs500 ==
  IsPost(last) =>
    /\ FailureCause(last) => last.resp.body.success = "false"
    /\ last.resp.body.success = "false" =>
         last.resp.code = 500 /\ last.resp.body.error # Absent

\* C13: every response to a request other than OPTIONS, the 405 and the
\* missing-credential responses included, carries Content-Type:
\* application/json and Access-Control-Allow-Origin: *.
C13_JsonCorsHeaders ==
  (last # NoRequest /\ last.req.method # "OPTIONS") =>
    /\ last.resp.contentType = "application/json"
    /\ last.resp.cors

\* The callback of timer k handles, in this step, a status poll that ended
\* in failure: the request failed or was answered without success, the
\* status is FAILED, or it is SUCCEEDED without an image URL.
FailsNow(k) ==
  \E x \in {"error", "failed", "succeeded_nourl"} :
    hist[k]'.responses = Append(hist[k].responses, x)

\* C14: whenever a status poll of a job ends in failure, the controller
\* shows an error with isGenerating false, and the job's timer is stopped
\* (so no further status request is issued for that job).
C14_PollFailureStops ==
  [][\A k \in DOMAIN hist :
       FailsNow(k) =>
         /\ k \notin intervals'
         /\ mounted => ui'.error # "" /\ ~ui'.isGenerating]_vars

\* C15: after the component is unmounted no polling timer is active (so no
\* interval tick fires and no status request is issued after teardown),
\* whatever the user did before.
C15_NoTimerAfterUnmount == ~mounted => intervals = {}

\* ------------------------------------------------ generateModifiedImage
\* generateModifiedImage called in any state of the page, whether or not the
\* submit button would let a click through, and the uploads it starts.
NextCall ==
  \/ \E file \in Files : handleFileSelect(file)
  \/ removeFile
  \/ \E v \in Prompts : setPrompt(v)
  \/ generateModifiedImage
  \/ \E k \in DOMAIN uploads : \E up \in PageUpChoices(UploadReq), f \in StoreFaults :
       ServeUpload(k, up, f)
  \/ \E k \in DOMAIN uploads : UploadRejects(k)
  \/ \E k \in DOMAIN uploads : UploadReturns(k)

SpecCall == InitPage /\ [][NextCall]_vars

\* The prompt is empty or consists of blanks.
Blank(p) == \A i \in 1..Len(p) : p[i] = " "

LocalRejectMessage == "Please upload an image and provide a modification prompt."

\* C16: generateModifiedImage called with no selected file or with an empty
\* or blank prompt only sets the error: isGenerating keeps its value (the
\* controller does not enter Uploading) and no request is sent.
C16_LocalReject ==
  [][(generateModifiedImage /\ (~ui.selectedFile \/ Blank(ui.prompt))) =>
       /\ ui' = [ui EXCEPT !.error = LocalRejectMessage]
       /\ uploads' = uploads
       /\ polls' = polls]_vars

C16_Witness ==
  /\ ui.error = LocalRejectMessage
  /\ ui.selectedFile /\ Len(ui.prompt) > 0 /\ Blank(ui.prompt)
  /\ ~ui.isGenerating /\ uploads = <<>>

\* C17: an OPTIONS request is answered with no body and with
\* Access-Control-Allow-Methods: POST, OPTIONS, whatever the configuration
\* (a missing credential included), and no upstream call is made.
C17_Preflight ==
  (last # NoRequest /\ last.req.method = "OPTIONS") =>
    /\ last.resp.bodyKind = "none"
    /\ last.resp.allowMethods = "POST, OPTIONS"
    /\ last.upCalls = {}
    /\ last.up = Absent

C17_Witness ==
  /\ last # NoRequest /\ last.req.method = "OPTIONS"
  /\ ~env.RUNWAYML_API_KEY /\ ~env.TASK_INFO_KV
  /\ last.resp.allowMethods = "POST, OPTIONS"

\* ------------------------------------------------------ polling, fair
\* The interval of timer k fires while no status request of that timer is
\* in flight (no count of the requests is kept).
TickLive(k) ==
  /\ k \in intervals
  /\ \A p \in polls : p.timer # k
  /\ polls' = polls \cup {[timer |-> k, n |-> 1, stage |-> "sent", resp |-> NoResp]}
  /\ UNCHANGED <<ui, mounted, pollIntervalRef, intervals, uploads, hist, inputs>>
  /\ UNCHANGED serverVars

ServePollOf(k) ==
  \E p \in polls : \E up \in PageUpChoices(StatusReq(TaskOf(p.timer))), f \in StoreFaults :
    p.timer = k /\ ServePoll(p, up, f)

PollReturnsOf(k) ==
  \E p \in polls, rejects \in BOOLEAN :
    p.timer = k /\ pollCallback(p, rejects) /\ UNCHANGED hist

NextLive ==
  \/ \E file \in Files : handleFileSelect(file)
  \/ removeFile
  \/ \E v \in Prompts : setPrompt(v)
  \/ Click
  \/ \E k \in DOMAIN uploads : \E up \in PageUpChoices(UploadReq), f \in StoreFaults :
       ServeUpload(k, up, f)
  \/ \E k \in DOMAIN uploads : UploadRejects(k)
  \/ \E k \in DOMAIN uploads : UploadReturns(k)
  \/ \E k \in 1..MaxSubmits : TickLive(k)
  \/ \E k \in 1..MaxSubmits : ServePollOf(k)
  \/ \E k \in 1..MaxSubmits : PollReturnsOf(k)
  \/ Unmount
  \/ \E t \in TaskIds, f \in StoreFaults : DeleteSettles(t, f) /\ UNCHANGED clientVars
  \/ \E t \in TaskIds : UpstreamAdvance(t) /\ UNCHANGED clientVars

\* Every job reaches a terminal state, the interval timers fire, and every
\* status request is answered and its callback resumes.
FairLive ==
  /\ \A t \in TaskIds : WF_vars(UpstreamAdvance(t) /\ UNCHANGED clientVars)
  /\ \A k \in 1..MaxSubmits : WF_vars(TickLive(k))
  /\ \A k \in 1..MaxSubmits : WF_vars(ServePollOf(k))
  /\ \A k \in 1..MaxSubmits : WF_vars(PollReturnsOf(k))

SpecLive == InitPage /\ [][NextLive]_vars /\ FairLive

\* C18: once a job's polling timer runs, if the job reaches a terminal state
\* and every status request completes, then under fair firing of the timer
\* the controller leaves Polling and the timer is stopped.
C18_PollingTerminates ==
  \A k \in 1..MaxSubmits : (k \in intervals) ~> (k \notin intervals)

\* The controller has reached Succeeded or Failed for the job of timer k:
\* its callback has handled a response that is not an in-progress one.
ReachedTerminal(k) == ~AllInProgress(hist[k].responses)

\* The callback of timer k handles a status response in this step.
HandlesNow(k) == Len(hist[k]'.responses) = Len(hist[k].responses) + 1

\* C19: once the controller has reached Succeeded or Failed for a job, a
\* status response of that job handled later (its request was in flight)
\* changes none of status, progress, error, result URL and isGenerating.
C19_LateResponseIgnored ==
  [][\A k \in DOMAIN hist :
       (ReachedTerminal(k) /\ HandlesNow(k)) => ui' = ui]_vars

\* C20: with the store configured, every status response that reports
\* SUCCEEDED with an output URL for a job submitted as kind image names the
\* URL imageUrl, also when the status action is issued again after a first
\* terminal-success poll was answered.
C20_ImageStaysImage ==
  (env.TASK_INFO_KV /\ SucceededWith(last) /\ submitted[last.req.taskId] = "image"
     /\ last.resp.body.success = "true") =>
    /\ last.resp.body.imageUrl = last.data.output
    /\ last.resp.body.videoUrl = NoUrl

\* C21: while the component is mounted, isGenerating is true whenever a
\* polling timer is active: no user action (selecting a file, removing the
\* file) resets isGenerating and leaves a timer running.
C21_TimerImpliesGenerating ==
  (mounted /\ intervals # {}) => ui.isGenerating

====
